---- MODULE Spec2Model ----
(***************************************************************************)
(* Model of Resources/ai_worker.py: a command-line adapter that forwards   *)
(* a prompt to the Ollama chat backend and prints the reply.               *)
(*                                                                         *)
(* Text is modelled as a sequence of one-character strings, so that        *)
(* lower-casing, joining and the formatting of messages are computed       *)
(* character by character.  One action is one statement of the program;    *)
(* a statement that writes (print, sys.stderr.write) is one step.          *)
(* Writes to the streams are taken to succeed, and the backend is taken to *)
(* return a reply whose content is text or to raise an Exception (the      *)
(* kinds `except Exception` covers).                                       *)
(***************************************************************************)
EXTENDS Integers, Sequences, FiniteSets, TLC

VARIABLES
    argv,         \* sys.argv of the running process (program name first)
    pc,           \* position of the process in the program
    command,      \* local `command` of main
    prompt_text,  \* local `prompt_text` of main / parameter of ollama_chat
    response,     \* what the call of chat() produced
    exc,          \* message of the exception bound to `e` in the handler
    uncaught,     \* TRUE when an exception propagates out of main
    stdout,       \* text written to sys.stdout by this process
    stderr,       \* text written to sys.stderr by this process
    exitStatus,   \* <<status>> once the process has exited, << >> before
    calls,        \* requests this process submitted to the backend, in order
    backend,      \* the deterministic backend: request -> outcome, as far as observed
    runs,         \* number of processes started so far
    history       \* completed earlier invocations: argv, streams and requests

vars == <<argv, pc, command, prompt_text, response, exc, uncaught,
          stdout, stderr, exitStatus, calls, backend, runs, history>>

----------------------------------------------------------------------------
(* Bounds of the model *)

MaxArgs == 3

MaxRuns == 3

----------------------------------------------------------------------------
(* Text constants of the program *)

NL == "\n"

UsageMsg == <<"U", "s", "a", "g", "e", ":", " ", "a", "i", "_", "w", "o", "r", "k", "e", "r", ".", "p", "y", " ", "o", "l", "l", "a", "m", "a", " ", "<", "p", "r", "o", "m", "p", "t", "_", "t", "e", "x", "t", ">", NL>>

UnknownMsg == <<"U", "n", "k", "n", "o", "w", "n", " ", "c", "o", "m", "m", "a", "n", "d", ".", " ", "U", "s", "e", ":", " ", "a", "i", "_", "w", "o", "r", "k", "e", "r", ".", "p", "y", " ", "o", "l", "l", "a", "m", "a", " ", "<", "p", "r", "o", "m", "p", "t", "_", "t", "e", "x", "t", ">", NL>>

ErrorPrefix == <<"E", "r", "r", "o", "r", " ", "i", "n", " ", "o", "l", "l", "a", "m", "a", "_", "c", "h", "a", "t", ":", " ">>

OllamaCmd == <<"o", "l", "l", "a", "m", "a">>

DefaultModel == <<"d", "e", "e", "p", "s", "e", "e", "k", "-", "r", "1", ":", "1", ".", "5", "b">>

ProgName == <<"a", "i", "_", "w", "o", "r", "k", "e", "r", ".", "p", "y">>

----------------------------------------------------------------------------
(* Pure functions *)

UpperChars == <<"A", "B", "C", "D", "E", "F", "G", "H", "I", "J", "K", "L", "M", "N", "O", "P", "Q", "R", "S", "T", "U", "V", "W", "X", "Y", "Z">>

LowerChars == <<"a", "b", "c", "d", "e", "f", "g", "h", "i", "j", "k", "l", "m", "n", "o", "p", "q", "r", "s", "t", "u", "v", "w", "x", "y", "z">>

\* str.lower() on one character: an upper-case letter maps to its lower-case
\* letter, every other character is kept.
LowerChar(c) ==
    IF \E i \in DOMAIN UpperChars : UpperChars[i] = c
    THEN LowerChars[CHOOSE i \in DOMAIN UpperChars : UpperChars[i] = c]
    ELSE c

\* faulty variant: the command is compared as typed
lowerMissing(s) == s

\* sys.argv[1].lower()
lower(s) == [i \in DOMAIN s |-> LowerChar(s[i])]

RECURSIVE joinNoSeparator(_, _)
\* faulty variant: the arguments are concatenated without the separator
joinNoSeparator(sep, ws) ==
    IF ws = << >> THEN << >> ELSE Head(ws) \o joinNoSeparator(sep, Tail(ws))

RECURSIVE join(_, _)
\* sep.join(ws): the elements in order, sep between consecutive elements
join(sep, ws) ==
    IF ws = << >> THEN << >>
    ELSE IF Len(ws) = 1 THEN Head(ws)
    ELSE Head(ws) \o sep \o join(sep, Tail(ws))

\* sys.argv[2:]
TrailingArgs(av) == SubSeq(av, 3, Len(av))

\* faulty variant: earlier prompts of the log are sent along with the prompt
RequestWithHistory(prompt, model) ==
    [model |-> model,
     messages |-> [i \in 1..Cardinality(history) |-> [role |-> "user", content |-> prompt]]
                  \o <<[role |-> "user", content |-> prompt]>>]

\* the arguments of chat(): the model and one message of role "user"
Request(prompt, model) ==
    [model |-> model,
     messages |-> <<[role |-> "user", content |-> prompt]>>]

\* faulty variant: print without the line end
PrintedNoNewline(text) == text

\* print(x) for text x: x and the line end
Printed(text) == text \o <<NL>>

\* faulty variant: the message is reported without the line end
ErrorLineNoNewline(msg) == ErrorPrefix \o msg

\* f"Error in ollama_chat: {e}\n"
ErrorLine(msg) == ErrorPrefix \o msg \o <<NL>>

----------------------------------------------------------------------------
(* Inputs *)

Tokens ==
    { OllamaCmd,
      <<"O", "L", "L", "A", "M", "A">>,
      <<"O", "l", "l", "a", "m", "a">>,
      <<"c", "h", "a", "t">>,
      <<"o", "l", "l", "a", "m", "a", "s">>,
      <<"h", "i">>,
      <<"w", "h", "a", "t">>,
      <<"i", "s">>,
      <<"2", "+", "2", "?">>,
      << >> }

RECURSIVE SeqsUpTo(_, _)
\* all sequences over S of length at most n
SeqsUpTo(S, n) ==
    IF n = 0 THEN { << >> }
    ELSE LET shorter == SeqsUpTo(S, n - 1)
         IN  shorter \cup { Append(s, x) : s \in shorter, x \in S }

\* the argument lists a process can be started with
Argvs == { <<ProgName>> \o args : args \in SeqsUpTo(Tokens, MaxArgs) }

RunCommands ==
    { OllamaCmd, <<"O", "L", "L", "A", "M", "A">>, <<"O", "l", "l", "a", "m", "a">>,
      <<"c", "h", "a", "t">> }

RunWords == { <<"h", "i">>, << >> }

\* the argument lists of the specification of repeated invocations
RunArgvs ==
    { <<ProgName>> } \cup { <<ProgName, c>> : c \in RunCommands }
    \cup { <<ProgName, c, w>> : c \in RunCommands, w \in RunWords }

ReplyTexts == { <<"4">>, << >>, <<"h", "i", NL>> }

ErrorTexts ==
    { <<"c", "o", "n", "n", "e", "c", "t", "i", "o", "n", " ", "r", "e", "f", "u", "s", "e", "d">>,
      << >> }

AttributeErrorTexts ==
    { <<"'", "C", "h", "a", "t", "R", "e", "s", "p", "o", "n", "s", "e", "'", " ", "o", "b", "j", "e", "c", "t", " ", "h", "a", "s", " ", "n", "o", " ", "a", "t", "t", "r", "i", "b", "u", "t", "e", " ", "'", "m", "e", "s", "s", "a", "g", "e", "'">> }

\* what a call of chat() can produce: a response carrying a reply, an
\* exception raised by the call, or a response on which reading
\* .message.content raises
Outcomes ==
    [kind : {"reply"}, text : ReplyTexts]
    \cup [kind : {"raise"}, text : ErrorTexts]
    \cup [kind : {"malformed"}, text : AttributeErrorTexts]

NoResponse == [kind |-> "none", text |-> << >>]

NoCommand == << >>

\* exitStatus of a process that is still running: no status yet
NotExited == << >>

----------------------------------------------------------------------------
(* The program *)

\* a fresh process started with argument list av
Start(av) ==
    /\ argv = av
    /\ pc = "main"
    /\ command = NoCommand
    /\ prompt_text = << >>
    /\ response = NoResponse
    /\ exc = << >>
    /\ uncaught = FALSE
    /\ stdout = << >>
    /\ stderr = << >>
    /\ exitStatus = NotExited
    /\ calls = << >>

Init ==
    /\ \E av \in Argvs : Start(av)
    /\ backend = << >>
    /\ runs = 1
    /\ history = {}

InitRuns ==
    /\ \E av \in RunArgvs : Start(av)
    /\ backend = << >>
    /\ runs = 1
    /\ history = {}

\* faulty variant: the argument count is checked against one argument too few
CheckArgsOffByOne ==
    /\ pc = "main"
    /\ IF Len(argv) < 2
       THEN /\ stderr' = stderr \o UsageMsg
            /\ pc' = "returned"
       ELSE /\ pc' = "dispatch"
            /\ UNCHANGED stderr
    /\ UNCHANGED <<argv, command, prompt_text, response, exc, uncaught,
                   stdout, exitStatus, calls, backend, runs, history>>

\* main: if len(sys.argv) < 3: write the usage message and return
CheckArgs ==
    /\ pc = "main"
    /\ IF Len(argv) < 3
       THEN /\ stderr' = stderr \o UsageMsg
            /\ pc' = "returned"
       ELSE /\ pc' = "dispatch"
            /\ UNCHANGED stderr
    /\ UNCHANGED <<argv, command, prompt_text, response, exc, uncaught,
                   stdout, exitStatus, calls, backend, runs, history>>

\* faulty variant: a command that starts with "ollama" is accepted
DispatchPrefix ==
    /\ pc = "dispatch"
    /\ command' = lower(argv[2])
    /\ IF Len(command') >= Len(OllamaCmd) /\ SubSeq(command', 1, Len(OllamaCmd)) = OllamaCmd
       THEN /\ prompt_text' = join(<<" ">>, TrailingArgs(argv))
            /\ pc' = "call"
            /\ UNCHANGED stderr
       ELSE /\ stderr' = stderr \o UnknownMsg
            /\ pc' = "returned"
            /\ UNCHANGED prompt_text
    /\ UNCHANGED <<argv, response, exc, uncaught, stdout, exitStatus,
                   calls, backend, runs, history>>

\* main: command = sys.argv[1].lower(); the chat path or the unknown-command
\* message
Dispatch ==
    /\ pc = "dispatch"
    /\ command' = lower(argv[2])
    /\ IF command' = OllamaCmd
       THEN /\ prompt_text' = join(<<" ">>, TrailingArgs(argv))
            /\ pc' = "call"
            /\ UNCHANGED stderr
       ELSE /\ stderr' = stderr \o UnknownMsg
            /\ pc' = "returned"
            /\ UNCHANGED prompt_text
    /\ UNCHANGED <<argv, response, exc, uncaught, stdout, exitStatus,
                   calls, backend, runs, history>>

\* ollama_chat: response = chat(model=model, messages=[...]).  The backend
\* answers a request it has answered before the way it did then.
CallBackend ==
    /\ pc = "call"
    /\ LET req == Request(prompt_text, DefaultModel)
       IN  /\ calls' = Append(calls, req)
           /\ \E o \in Outcomes :
                /\ req \in DOMAIN backend => o = backend[req]
                /\ backend' = (req :> o) @@ backend
                /\ IF o.kind = "raise"
                   THEN /\ exc' = o.text
                        /\ pc' = "except"
                        /\ UNCHANGED response
                   ELSE /\ response' = o
                        /\ pc' = "print"
                        /\ UNCHANGED exc
    /\ UNCHANGED <<argv, command, prompt_text, uncaught, stdout, stderr,
                   exitStatus, runs, history>>

\* faulty variant: the reply is echoed to stderr as well
PrintReplyAlsoStderr ==
    /\ pc = "print"
    /\ IF response.kind = "reply"
       THEN /\ stdout' = stdout \o Printed(response.text)
            /\ stderr' = stderr \o Printed(response.text)
            /\ pc' = "returned"
            /\ UNCHANGED exc
       ELSE /\ exc' = response.text
            /\ pc' = "except"
            /\ UNCHANGED <<stdout, stderr>>
    /\ UNCHANGED <<argv, command, prompt_text, response, uncaught,
                   exitStatus, calls, backend, runs, history>>

\* ollama_chat: print(response.message.content), inside the try block
PrintReply ==
    /\ pc = "print"
    /\ IF response.kind = "reply"
       THEN /\ stdout' = stdout \o Printed(response.text)
            /\ pc' = "returned"
            /\ UNCHANGED exc
       ELSE /\ exc' = response.text
            /\ pc' = "except"
            /\ UNCHANGED stdout
    /\ UNCHANGED <<argv, command, prompt_text, response, uncaught,
                   stderr, exitStatus, calls, backend, runs, history>>

\* faulty variant: the handler reports and raises the exception again
ReportErrorReraise ==
    /\ pc = "except"
    /\ stderr' = stderr \o ErrorLine(exc)
    /\ uncaught' = TRUE
    /\ pc' = "returned"
    /\ UNCHANGED <<argv, command, prompt_text, response, exc, stdout,
                   exitStatus, calls, backend, runs, history>>

\* faulty variant: the handler tries the call once more
ReportErrorRetry ==
    /\ pc = "except"
    /\ IF Len(calls) < 2
       THEN /\ pc' = "call"
            /\ UNCHANGED stderr
       ELSE /\ stderr' = stderr \o ErrorLine(exc)
            /\ pc' = "returned"
    /\ UNCHANGED <<argv, command, prompt_text, response, exc, uncaught,
                   stdout, exitStatus, calls, backend, runs, history>>

\* ollama_chat: except Exception as e: sys.stderr.write(...)
ReportError ==
    /\ pc = "except"
    /\ stderr' = stderr \o ErrorLine(exc)
    /\ pc' = "returned"
    /\ UNCHANGED <<argv, command, prompt_text, response, exc, uncaught,
                   stdout, exitStatus, calls, backend, runs, history>>

\* main() has returned (or an exception left it): the interpreter exits,
\* with status 0 unless an exception is uncaught
Exit ==
    /\ pc = "returned"
    /\ exitStatus' = IF uncaught THEN <<1>> ELSE <<0>>
    /\ pc' = "exited"
    /\ UNCHANGED <<argv, command, prompt_text, response, exc, uncaught,
                   stdout, stderr, calls, backend, runs, history>>

\* the record of the invocation that has just exited
ThisRun == [argv |-> argv, stdout |-> stdout, stderr |-> stderr, calls |-> calls]

\* the program is invoked again: a new process, nothing kept from the last
Reinvoke ==
    /\ pc = "exited"
    /\ runs < MaxRuns
    /\ runs' = runs + 1
    /\ history' = history \cup {ThisRun}
    /\ \E av \in RunArgvs :
         /\ argv' = av
         /\ pc' = "main"
         /\ command' = NoCommand
         /\ prompt_text' = << >>
         /\ response' = NoResponse
         /\ exc' = << >>
         /\ uncaught' = FALSE
         /\ stdout' = << >>
         /\ stderr' = << >>
         /\ exitStatus' = NotExited
         /\ calls' = << >>
    /\ UNCHANGED backend

Next ==
    \/ CheckArgs
    \/ Dispatch
    \/ CallBackend
    \/ PrintReply
    \/ ReportError
    \/ Exit

NextRuns ==
    \/ Next
    \/ Reinvoke

\* one invocation
Spec == Init /\ [][Next]_vars

\* one invocation that keeps running: every statement is executed and the
\* blocking call returns or raises
FairSpec == Init /\ [][Next]_vars /\ WF_vars(Next)

\* a sequence of invocations against one deterministic backend
SpecRuns == InitRuns /\ [][NextRuns]_vars

----------------------------------------------------------------------------
(* Vocabulary of the properties, stated without the program's functions *)

OllamaUpper == <<"O", "L", "L", "A", "M", "A">>

\* s lowercases to "ollama": each letter is the lower- or upper-case one
IsOllamaVariant(s) ==
    /\ Len(s) = Len(OllamaCmd)
    /\ \A i \in 1..Len(OllamaCmd) : s[i] \in {OllamaCmd[i], OllamaUpper[i]}

\* at least two arguments after the program name, the first one "ollama"
\* in some casing
ChatArgs(av) == Len(av) >= 3 /\ IsOllamaVariant(av[2])

\* main has ended
Ended == pc \in {"returned", "exited"}

\* the backend's answer to the request of this run
Answer == backend[calls[1]]

UsageText == <<"U", "s", "a", "g", "e", ":", " ", "a", "i", "_", "w", "o", "r", "k", "e", "r", ".", "p", "y", " ", "o", "l", "l", "a", "m", "a", " ", "<", "p", "r", "o", "m", "p", "t", "_", "t", "e", "x", "t", ">", "\n">>

UnknownCommandText == <<"U", "n", "k", "n", "o", "w", "n", " ", "c", "o", "m", "m", "a", "n", "d", ".", " ", "U", "s", "e", ":", " ", "a", "i", "_", "w", "o", "r", "k", "e", "r", ".", "p", "y", " ", "o", "l", "l", "a", "m", "a", " ", "<", "p", "r", "o", "m", "p", "t", "_", "t", "e", "x", "t", ">", "\n">>

BackendErrorText(m) == <<"E", "r", "r", "o", "r", " ", "i", "n", " ", "o", "l", "l", "a", "m", "a", "_", "c", "h", "a", "t", ":", " ">> \o m \o <<"\n">>

ConnectionRefused == <<"c", "o", "n", "n", "e", "c", "t", "i", "o", "n", " ", "r", "e", "f", "u", "s", "e", "d">>

\* the position in the prompt before which the k-th argument starts
RECURSIVE OffsetOf(_, _)
OffsetOf(ws, k) == IF k = 1 THEN 0 ELSE OffsetOf(ws, k - 1) + Len(ws[k - 1]) + 1

\* p is ws in order with exactly one space between consecutive elements and
\* nothing before or after
IsSpaceJoined(p, ws) ==
    IF ws = << >> THEN p = << >>
    ELSE /\ Len(p) = OffsetOf(ws, Len(ws)) + Len(ws[Len(ws)])
         /\ \A k \in 1..Len(ws) :
              /\ \A i \in 1..Len(ws[k]) : p[OffsetOf(ws, k) + i] = ws[k][i]
              /\ k < Len(ws) => p[OffsetOf(ws, k) + Len(ws[k]) + 1] = " "

----------------------------------------------------------------------------
(* Properties *)

\* C1: stdout is always empty or the complete reply line (the backend's
\* reply text and one newline), stdout and stderr are never both non-empty,
\* and when main has ended either stdout is the reply line and stderr is
\* empty, or stdout is empty and stderr is exactly one of the usage message,
\* the unknown-command message and the formatted backend error.
C1_StreamShapes ==
    /\ \/ stdout = << >>
       \/ /\ calls # << >>
          /\ Answer.kind = "reply"
          /\ stdout = Answer.text \o <<"\n">>
    /\ ~(stdout # << >> /\ stderr # << >>)
    /\ Ended =>
         \/ /\ stdout # << >>
            /\ stderr = << >>
         \/ /\ stdout = << >>
            /\ \/ stderr = UsageText
               \/ stderr = UnknownCommandText
               \/ /\ calls # << >>
                  /\ Answer.kind \in {"raise", "malformed"}
                  /\ stderr = BackendErrorText(Answer.text)

C1_Witness ==
    /\ pc = "exited"
    /\ calls # << >>
    /\ Answer.kind = "reply"
    /\ stdout = <<"h", "i", "\n", "\n">>
    /\ stderr = << >>

\* C2: when the backend call raises an error with message m, the error does
\* not leave ollama_chat, nothing is written to stdout, and at the end of
\* the run stderr is exactly "Error in ollama_chat: " + m + "\n".
C2_BackendErrorReported ==
    (calls # << >> /\ Answer.kind \in {"raise", "malformed"}) =>
        /\ stdout = << >>
        /\ ~uncaught
        /\ stderr \in {<< >>, BackendErrorText(Answer.text)}
        /\ Ended => stderr = BackendErrorText(Answer.text)

C2_Witness ==
    /\ pc = "exited"
    /\ argv = <<ProgName, OllamaCmd, <<"h", "i">>>>
    /\ Answer = [kind |-> "raise", text |-> ConnectionRefused]
    /\ stdout = << >>
    /\ stderr = BackendErrorText(ConnectionRefused)

\* C3: with at least two arguments, the first one "ollama" in any casing,
\* and a backend that returns a reply with content c, the run writes
\* exactly c and one newline to stdout and nothing to stderr.
C3_ReplyPrinted ==
    ChatArgs(argv) =>
        /\ Ended => calls # << >>
        /\ (calls # << >> /\ Answer.kind = "reply") =>
              /\ stderr = << >>
              /\ stdout \in {<< >>, Answer.text \o <<"\n">>}
              /\ Ended => stdout = Answer.text \o <<"\n">>

C3_Witness ==
    /\ pc = "exited"
    /\ argv = <<ProgName, OllamaCmd, <<"2", "+", "2", "?">>>>
    /\ Answer = [kind |-> "reply", text |-> <<"4">>]
    /\ stdout = <<"4", "\n">>
    /\ stderr = << >>

\* C4: with no argument or one argument, whatever it is, the run writes the
\* usage message to stderr and nothing to stdout, never calls the backend
\* and never gets to the command check.
C4_UsageFloor ==
    Len(argv) <= 2 =>
        /\ calls = << >>
        /\ stdout = << >>
        /\ pc \in {"main", "returned", "exited"}
        /\ command = NoCommand
        /\ stderr \in {<< >>, UsageText}
        /\ Ended => stderr = UsageText

C4_Witness ==
    /\ pc = "exited"
    /\ argv = <<ProgName, OllamaCmd>>
    /\ stderr = UsageText
    /\ stdout = << >>

\* C5: with at least two arguments whose first does not lowercase to
\* "ollama", the run writes exactly the unknown-command message to stderr
\* and nothing to stdout, and never calls the backend.
C5_UnknownCommand ==
    (Len(argv) >= 3 /\ ~IsOllamaVariant(argv[2])) =>
        /\ calls = << >>
        /\ stdout = << >>
        /\ stderr \in {<< >>, UnknownCommandText}
        /\ Ended => stderr = UnknownCommandText

C5_Witness ==
    /\ pc = "exited"
    /\ Len(argv) = 4
    /\ argv[2] = <<"c", "h", "a", "t">>
    /\ argv[3] = OllamaCmd
    /\ stderr = UnknownCommandText
    /\ stdout = << >>

\* C6: runs whose first arguments are case variants of "ollama" and whose
\* remaining arguments are equal take the chat path, submit the same request
\* (same model, same single user message) and end with the same stdout and
\* the same stderr.
C6_CaseInsensitiveDispatch ==
    (Ended /\ ChatArgs(argv)) =>
        /\ Len(calls) = 1
        /\ \A h \in history :
             (ChatArgs(h.argv) /\ SubSeq(h.argv, 3, Len(h.argv)) = SubSeq(argv, 3, Len(argv))) =>
                 /\ h.calls = calls
                 /\ h.stdout = stdout
                 /\ h.stderr = stderr

C6_Witness ==
    /\ pc = "exited"
    /\ argv = <<ProgName, OllamaUpper, <<"h", "i">>>>
    /\ <<ProgName, OllamaCmd, <<"h", "i">>>> \in { h.argv : h \in history }
    /\ calls # << >>

\* C7: on the chat path the request carries the default model and one user
\* message whose content is the arguments after the command, in order, with
\* exactly one space between consecutive arguments and nothing added; an
\* empty prompt is submitted like any other.
C7_PromptReconstruction ==
    ChatArgs(argv) =>
        /\ Ended => calls # << >>
        /\ \A n \in 1..Len(calls) :
             /\ calls[n].model = <<"d", "e", "e", "p", "s", "e", "e", "k", "-", "r", "1", ":", "1", ".", "5", "b">>
             /\ Len(calls[n].messages) = 1
             /\ calls[n].messages[1].role = "user"
             /\ IsSpaceJoined(calls[n].messages[1].content, SubSeq(argv, 3, Len(argv)))

C7_Witness ==
    /\ argv = <<ProgName, OllamaCmd, <<"w", "h", "a", "t">>, <<"i", "s">>>>
    /\ calls # << >>
    /\ calls[1].messages[1].content = <<"w", "h", "a", "t", " ", "i", "s">>

\* C8: every invocation ends, and it ends with exit status 0 and no
\* uncaught error, whichever of the four paths it took.
C8_NormalExit ==
    /\ <>(pc = "exited")
    /\ [](pc = "exited" => (exitStatus = <<0>> /\ ~uncaught))

C8_Witness ==
    /\ pc = "exited"
    /\ exitStatus = <<0>>
    /\ calls # << >>
    /\ Answer.kind = "raise"
    /\ stderr # << >>

\* C9: an invocation ends with the same stdout and the same stderr as every
\* earlier invocation that had the same arguments, whatever was invoked in
\* between.
C9_Deterministic ==
    Ended =>
        \A h \in history :
            h.argv = argv => (h.stdout = stdout /\ h.stderr = stderr)

C9_Witness ==
    /\ pc = "exited"
    /\ calls # << >>
    /\ \E h \in history : h.argv = argv
    /\ \E h \in history : h.argv # argv /\ h.calls # << >> /\ h.calls # calls

\* C10: the backend is called at most once in a run; a run that has ended
\* has called it exactly when there are at least two arguments and the first
\* lowercases to "ollama"; the call comes after validation and dispatch and
\* before any write to a stream; a failed call is not repeated.
C10_SingleCall ==
    /\ Len(calls) <= 1
    /\ Ended => (Len(calls) = 1 <=> ChatArgs(argv))
    /\ calls # << >> => pc \in {"print", "except", "returned", "exited"}
    /\ calls = << >> => (ChatArgs(argv) => (stdout = << >> /\ stderr = << >>))
    /\ pc \in {"main", "dispatch", "call"} => (stdout = << >> /\ stderr = << >>)

C10_Witness ==
    /\ pc = "exited"
    /\ Len(calls) = 1
    /\ Answer.kind = "raise"
    /\ stderr # << >>

====
